---- MODULE Spec2Model ----
(***************************************************************************)
(* A model of DeepResearchAgent.run (app/agents/research_agent.py): the    *)
(* plan / execute / synthesize / reflect / revise loop, the evidence       *)
(* gatherer and the evidence deduplication.                                *)
(*                                                                         *)
(* Conventions.  A Python str that the code splits into words is a         *)
(* sequence of word tokens (f"{text} overview" is text \o <<"overview">>). *)
(* A float with three decimals is an integer number of thousandths.  A     *)
(* value decoded by json.loads is a tagged record (JNull, JInt, ...); a    *)
(* JSON object carries a function from its keys to JSON values.  An        *)
(* exception that leaves run() is pc = "failed" with its name in error.    *)
(***************************************************************************)
EXTENDS Integers, Sequences, FiniteSets, TLC

VARIABLES
    pc,          \* position of run(): start, plan, execute, ingest, memory,
                 \* executed, synthesize, reflect, revise, resynth, finish,
                 \* format, done, failed
    task,        \* TaskSpec: question and evidence_constraints
    file_paths,  \* the file_paths argument of run()
    plan,        \* the Plan, None before _plan returns
    notes,       \* Dict[str, List[Evidence]]: sub-question text -> evidence
    exec_i,      \* _execute: how many of the sorted sub-questions are gathered
    iter,        \* how many iterations of the for loop of run() have started
    draft,       \* the Briefing of the last _synthesize call made by run()
    feedback,    \* the value _reflect returned last
    final,       \* the Briefing that _revise returned last, None before
    error,       \* the exception that ended the run and the step that raised it
    response,    \* the text(s) the language model answered to the last prompt(s)
    vectorstore, \* _execute: how the build_vectorstore call ended, "none" outside
    log,         \* history: counts of the calls made by this run
    fin,         \* argument of the pure function under check
    fout         \* its result

vars == <<pc, task, file_paths, plan, notes, exec_i, iter, draft, feedback,
          final, error, response, vectorstore, log, fin, fout>>

runVars == <<pc, task, file_paths, plan, notes, exec_i, iter, draft,
             feedback, final, error, response, vectorstore, log>>

----------------------------------------------------------------------------
(* Bounds of the model.                                                    *)

\* the largest max_iterations a planning response asks for
MaxIter == 2

\* the longest Evidence list handed to _dedupe on its own
MaxLen == 3

\* the longest query list handed to _gather on its own
MaxQueries == 2

\* the longest findings list handed to _metrics on its own
MaxFindings == 3

\* the longest Notes entry given to _synthesize on its own
MaxNotes == 6

----------------------------------------------------------------------------
(* Python values.                                                          *)

None == [t |-> "none"]

JNull == [t |-> "null"]
JInt(i) == [t |-> "int", i |-> i]
JFloat(m) == [t |-> "float", m |-> m]
JStr(s) == [t |-> "str", s |-> s]
JList(l) == [t |-> "list", l |-> l]
JObj(o) == [t |-> "obj", o |-> o]

EmptyMap == [k \in {} |-> JNull]
EmptyObj == JObj(EmptyMap)

\* bool(v) of a decoded JSON value
Truthy(v) ==
    CASE v.t = "null" -> FALSE
      [] v.t = "int" -> v.i # 0
      [] v.t = "float" -> v.m # 0
      [] v.t = "str" -> v.s # <<>>
      [] v.t = "list" -> Len(v.l) > 0
      [] v.t = "obj" -> DOMAIN v.o # {}
      [] OTHER -> FALSE

\* dict.get(key, default) of a JSON object
Get(d, k, default) == IF k \in DOMAIN d.o THEN d.o[k] ELSE default

Has(d, k) == k \in DOMAIN d.o

\* the words that int() and float() parse
NumericWords == {"1", "2"}

WordValue(w) == IF w = "1" THEN 1 ELSE 2

\* int(v) does not raise
IntOk(v) ==
    \/ v.t \in {"int", "float"}
    \/ v.t = "str" /\ Len(v.s) = 1 /\ v.s[1] \in NumericWords

\* int(v): a float is truncated toward zero
IntOf(v) ==
    CASE v.t = "int" -> v.i
      [] v.t = "float" -> IF v.m >= 0 THEN v.m \div 1000 ELSE -((-v.m) \div 1000)
      [] OTHER -> WordValue(v.s[1])

\* float(v) does not raise
FloatOk(v) == IntOk(v)

\* float(v), in thousandths
FloatOf(v) ==
    CASE v.t = "int" -> v.i * 1000
      [] v.t = "float" -> v.m
      [] OTHER -> WordValue(v.s[1]) * 1000

\* a response of the language model: text that json.loads rejects, or the
\* JSON value it encodes
NotJson == [json |-> FALSE]
Json(v) == [json |-> TRUE, value |-> v]

\* _parse_json: json.loads(text), {} when it raises
_parse_json(r) == IF r.json THEN r.value ELSE EmptyObj

----------------------------------------------------------------------------
(* app/schemas/models.py                                                   *)

ECFields == {"source_types", "time_range", "quality"}

\* pydantic's validation of one EvidenceConstraints field
FieldValid(k, v) ==
    \/ v.t = "null"
    \/ k = "source_types" /\ v.t = "list" /\ \A i \in 1..Len(v.l) : v.l[i].t = "str"
    \/ k = "time_range" /\ v.t = "obj" /\ \A y \in DOMAIN v.o : v.o[y].t = "int"
    \/ k = "quality" /\ v.t = "str"

\* EvidenceConstraints(**raw) does not raise: raw is a mapping and every
\* declared field it holds validates (unknown keys are ignored)
ConstraintsValid(raw) ==
    /\ raw.t = "obj"
    /\ \A k \in ECFields \cap DOMAIN raw.o : FieldValid(k, raw.o[k])

\* EvidenceConstraints(**m): every field defaults to None
EvidenceConstraints(m) ==
    [k \in ECFields |-> IF k \in DOMAIN m THEN m[k] ELSE JNull]

\* EvidenceConstraints.model_dump()
model_dump(c) == JObj(c)

StrList(v) == [i \in 1..Len(v.l) |-> v.l[i].s]

IsStrList(v) == v.t = "list" /\ \A i \in 1..Len(v.l) : v.l[i].t = "str"

\* SubQuestion(**item) does not raise a ValidationError
SubQuestionValid(item) ==
    /\ Has(item, "text") /\ item.o["text"].t = "str"
    /\ Has(item, "priority") => item.o["priority"].t = "int"
    /\ Has(item, "tactics") => IsStrList(item.o["tactics"])
    /\ Has(item, "query_variants") => IsStrList(item.o["query_variants"])

\* SubQuestion(**item): priority defaults to 1, the lists to []
SubQuestion(item) ==
    [text |-> item.o["text"].s,
     priority |-> IF Has(item, "priority") THEN item.o["priority"].i ELSE 1,
     tactics |-> IF Has(item, "tactics") THEN StrList(item.o["tactics"]) ELSE <<>>,
     query_variants |-> IF Has(item, "query_variants")
                        THEN StrList(item.o["query_variants"]) ELSE <<>>]

----------------------------------------------------------------------------
(* Results of a step that may raise.                                       *)

Ok(v) == [ok |-> TRUE, val |-> v]
Raise(e) == [ok |-> FALSE, err |-> e]

----------------------------------------------------------------------------
(* DeepResearchAgent: constraints.                                         *)

\* _to_constraints(raw): None for a falsy raw and for one that
\* EvidenceConstraints rejects (the except branch)
_to_constraints(raw) ==
    IF ~Truthy(raw) THEN None
    ELSE IF ConstraintsValid(raw) THEN EvidenceConstraints(raw.o)
    ELSE None

\* mutant: a null field of the override replaces the base's field
MergedDictNullWins(base, override) ==
    LET b == IF base # None THEN base ELSE EmptyMap
        set == IF Truthy(override) THEN DOMAIN override.o ELSE {}
    IN  [k \in DOMAIN b \cup set |-> IF k \in set THEN override.o[k] ELSE b[k]]

\* the dict that _merge_constraints hands to EvidenceConstraints
MergedDict(base, override) ==
    LET b == IF base # None THEN base ELSE EmptyMap
        set == IF Truthy(override)
               THEN {k \in DOMAIN override.o : override.o[k].t # "null"}
               ELSE {}
    IN  [k \in DOMAIN b \cup set |-> IF k \in set THEN override.o[k] ELSE b[k]]

\* _merge_constraints(base, override): Ok(None), Ok(constraints) or a raise
_merge_constraints(base, override) ==
    IF base = None /\ ~Truthy(override) THEN Ok(None)
    ELSE IF Truthy(override) /\ override.t # "obj" THEN Raise("AttributeError")
    ELSE LET merged == MergedDict(base, override)
         IN  IF ConstraintsValid(JObj(merged))
             THEN Ok(EvidenceConstraints(merged))
             ELSE Raise("ValidationError")

----------------------------------------------------------------------------
(* DeepResearchAgent._plan                                                 *)

DefaultMaxIterations == 2
DefaultConfidenceThreshold == 650

\* [SubQuestion(**item) for item in v] does not raise
SubQuestionsOk(v) ==
    \/ v.t = "list" /\ \A i \in 1..Len(v.l) : v.l[i].t = "obj" /\ SubQuestionValid(v.l[i])
    \/ v.t \in {"str", "obj"} /\ ~Truthy(v)

\* the exception of [SubQuestion(**item) for item in v]: the value is not
\* iterable, an item is no mapping, or an item fails validation
SubQuestionsError(v) ==
    IF v.t = "list" /\ \A i \in 1..Len(v.l) : v.l[i].t = "obj"
    THEN "ValidationError" ELSE "TypeError"

SubQuestionsOf(v) ==
    IF v.t = "list" THEN [i \in 1..Len(v.l) |-> SubQuestion(v.l[i])] ELSE <<>>

\* mutant: the empty list is kept
OrFallbackNone(tk, sub_questions) == sub_questions

\* _plan, lines 82-83: an empty list becomes the one-question plan
OrFallback(tk, sub_questions) ==
    IF sub_questions = <<>>
    THEN <<[text |-> tk.question, priority |-> 1,
            tactics |-> <<>>, query_variants |-> <<>>]>>
    ELSE sub_questions

\* Plan(...) validates success_criteria: List[str]
SuccessCriteriaOk(v) == IsStrList(v)

\* _plan(task) on the response the model gave: the Plan, or the exception
\* that leaves it
_plan(tk, resp) ==
    LET data == _parse_json(resp) IN
    IF data.t # "obj" THEN Raise("AttributeError")
    ELSE
    LET sq == Get(data, "sub_questions", JList(<<>>))
        sc == Get(data, "success_criteria", JList(<<>>))
        mi == Get(data, "max_iterations", JInt(DefaultMaxIterations))
        ct == Get(data, "confidence_threshold", JFloat(DefaultConfidenceThreshold))
        ec == _to_constraints(Get(data, "evidence_constraints", JNull))
    IN  IF ~SubQuestionsOk(sq) THEN Raise(SubQuestionsError(sq))
        ELSE IF ~IntOk(mi) THEN Raise(IF mi.t = "str" THEN "ValueError" ELSE "TypeError")
        ELSE IF ~FloatOk(ct) THEN Raise(IF ct.t = "str" THEN "ValueError" ELSE "TypeError")
        ELSE IF ~SuccessCriteriaOk(sc) THEN Raise("ValidationError")
        ELSE Ok([sub_questions |-> OrFallback(tk, SubQuestionsOf(sq)),
                 success_criteria |-> StrList(sc),
                 max_iterations |-> IntOf(mi),
                 confidence_threshold |-> FloatOf(ct),
                 evidence_constraints |->
                     IF ec # None THEN ec ELSE tk.evidence_constraints])

----------------------------------------------------------------------------
(* The words and pages of the model's web.                                 *)

Question == <<"caffeine", "sleep">>
TextA == <<"caffeine">>
TextB == <<"sleep">>

UrlArxiv == "arxiv.org/abs/1"
UrlBlog == "blog.example/post"
UrlDoi == "doi.org/10.1/j"
URLs == {UrlArxiv, UrlBlog}

\* the page texts fetch_page can return for a url: the preprint's page
\* changes between two fetches, the blog's does not
PageTexts(url) ==
    IF url = UrlArxiv
    THEN {<<"caffeine", "sleep", "2019">>, <<"sleep", "journal">>}
    ELSE {<<"caffeine", "sleep", "2019">>}

Range(f) == {f[i] : i \in DOMAIN f}

Min(a, b) == IF a <= b THEN a ELSE b

\* round(1000 * a / b): a / b rounded to three decimals, in thousandths
RoundDiv(a, b) == (2 * a + b) \div (2 * b)

\* the keywords of _infer_source_type that occur in a word (substring test)
SourceKeywords ==
    {"arxiv", "biorxiv", "medrxiv", "doi.org", "journal", "proceedings",
     "wikipedia.org", "encyclopedia", "news", "press", "blog", "medium.com"}

KeywordsIn(w) ==
    IF w = UrlArxiv THEN {"arxiv"}
    ELSE IF w = UrlBlog THEN {"blog"}
    ELSE IF w = UrlDoi THEN {"doi.org"}
    ELSE {w} \cap SourceKeywords

\* int(token) of a word with token.isdigit() and len(token) == 4
YearWords == {"2019", "2023"}
YearOf(w) == IF w = "2019" THEN 2019 ELSE 2023

----------------------------------------------------------------------------
(* DeepResearchAgent: the evidence gatherer.                               *)

Freshness == 600
Trust == 600
RelevanceFloor == 100
RelevanceWords == 400

\* list(dict.fromkeys(seq)): first occurrences, in order
RECURSIVE Unique(_)
Unique(seq) ==
    IF seq = <<>> THEN <<>>
    ELSE LET front == Unique(SubSeq(seq, 1, Len(seq) - 1))
             last == seq[Len(seq)]
         IN  IF last \in Range(front) THEN front ELSE Append(front, last)

\* _query_variants(sub): the text, "{text} overview", "{text} survey" and one
\* query per tactic; empty strings dropped, duplicates dropped
_query_variants(sub) ==
    LET base == <<sub.text, sub.text \o <<"overview">>, sub.text \o <<"survey">> >>
                \o [i \in 1..Len(sub.tactics) |-> sub.text \o sub.tactics[i]]
    IN  Unique(SelectSeq(base, LAMBDA q : q # <<>>))

\* _score_relevance(query, content)
_score_relevance(query, content) ==
    LET qt == Range(query)
        ct == Range(SubSeq(content, 1, Min(Len(content), RelevanceWords)))
    IN  IF qt = {} \/ ct = {} THEN RelevanceFloor
        ELSE RoundDiv(1000 * Cardinality(qt \cap ct), Cardinality(qt))

\* _infer_source_type(url, title, content): the first keyword group found
_infer_source_type(url, title, content) ==
    LET low == UNION {KeywordsIn(w) : w \in {url} \cup Range(title) \cup Range(content)}
    IN  IF low \cap {"arxiv", "biorxiv", "medrxiv"} # {} THEN "preprint"
        ELSE IF low \cap {"doi.org", "journal", "proceedings"} # {} THEN "peer_reviewed"
        ELSE IF low \cap {"wikipedia.org", "encyclopedia"} # {} THEN "encyclopedia"
        ELSE IF low \cap {"news", "press"} # {} THEN "news"
        ELSE IF low \cap {"blog", "medium.com"} # {} THEN "blog"
        ELSE "other"

SetMax(S) == CHOOSE x \in S : \A y \in S : y <= x

\* mutant: the earliest year found is compared, not the latest
_passes_constraints_earliest(constraints, source_type, content, url) ==
    LET st == constraints["source_types"]
        tr == constraints["time_range"]
        years == {YearOf(w) : w \in ({url} \cup Range(content)) \cap YearWords}
        earliest == CHOOSE x \in years : \A y \in years : x <= y
        start == Get(tr, "start_year", JNull)
        end == Get(tr, "end_year", JNull)
    IN  IF Truthy(st) /\ <<source_type>> \notin Range(StrList(st)) THEN FALSE
        ELSE IF Truthy(tr) /\ years # {}
                /\ \/ Truthy(start) /\ earliest < start.i
                   \/ Truthy(end) /\ earliest > end.i
             THEN FALSE
        ELSE TRUE

\* _passes_constraints(constraints, source_type, content, url)
_passes_constraints(constraints, source_type, content, url) ==
    LET st == constraints["source_types"]
        tr == constraints["time_range"]
        years == {YearOf(w) : w \in ({url} \cup Range(content)) \cap YearWords}
        start == Get(tr, "start_year", JNull)
        end == Get(tr, "end_year", JNull)
    IN  IF Truthy(st) /\ <<source_type>> \notin Range(StrList(st)) THEN FALSE
        ELSE IF Truthy(tr) /\ years # {}
                /\ \/ Truthy(start) /\ SetMax(years) < start.i
                   \/ Truthy(end) /\ SetMax(years) > end.i
             THEN FALSE
        ELSE TRUE

\* mutant: the score is the mean of relevance and freshness only
_build_evidence_no_trust(url, meta, source_type, query) ==
    LET relevance == _score_relevance(query, meta.content)
    IN  [url |-> url,
         title |-> meta.title,
         snippet |-> meta.content,
         source_type |-> source_type,
         relevance |-> relevance,
         freshness |-> Freshness,
         trust |-> Trust,
         score |-> RoundDiv(relevance + Freshness, 2)]

\* _build_evidence(url, meta, source_type, query)
_build_evidence(url, meta, source_type, query) ==
    LET relevance == _score_relevance(query, meta.content)
    IN  [url |-> url,
         title |-> meta.title,
         snippet |-> meta.content,
         source_type |-> source_type,
         relevance |-> relevance,
         freshness |-> Freshness,
         trust |-> Trust,
         score |-> RoundDiv(relevance + Freshness + Trust, 3)]

\* what search_web and fetch_page answer: a value, or an exception of requests
SearchFailed == Raise("RequestException")
FetchFailed == Raise("RequestException")

\* fetch_page(url) of a page with no <title>: the title is the url
Page(url, content) == Ok([title |-> <<url>>, content |-> content])

\* the inner loop of _gather over the urls of one query: the Evidence built,
\* or the exception of the first fetch that fails
RECURSIVE GatherUrls(_, _, _, _)
GatherUrls(sub, constraints, urls, fetch) ==
    IF urls = <<>> THEN Ok(<<>>)
    ELSE
    LET url == Head(urls)
        got == fetch[url]
    IN  IF ~got.ok THEN got
        ELSE
        LET meta == got.val
            source_type == _infer_source_type(url, meta.title, meta.content)
            rest == GatherUrls(sub, constraints, Tail(urls), fetch)
        IN  IF ~rest.ok THEN rest
            ELSE IF constraints # None
                    /\ ~_passes_constraints(constraints, source_type, meta.content, url)
                 THEN rest
            ELSE Ok(<<_build_evidence(url, meta, source_type, sub.text)>> \o rest.val)

\* the outer loop of _gather over the queries: search[i] is what search_web
\* answers to the i-th query, fetch[url] what fetch_page answers for url
RECURSIVE GatherQueries(_, _, _, _, _, _)
GatherQueries(sub, constraints, queries, i, search, fetch) ==
    IF i > Len(queries) THEN Ok(<<>>)
    ELSE IF ~search[i].ok THEN search[i]
    ELSE
    LET here == GatherUrls(sub, constraints, search[i].val, fetch)
        rest == GatherQueries(sub, constraints, queries, i + 1, search, fetch)
    IN  IF ~here.ok THEN here
        ELSE IF ~rest.ok THEN rest
        ELSE Ok(here.val \o rest.val)

\* mutant: the sub-question's query_variants come before the explicit queries
GatherQueryListPlanFirst(sub, queries) ==
    IF sub.query_variants # <<>> THEN sub.query_variants
    ELSE IF queries # <<>> THEN queries
    ELSE _query_variants(sub)

\* queries or sub.query_variants or self._query_variants(sub)
GatherQueryList(sub, queries) ==
    IF queries # <<>> THEN queries
    ELSE IF sub.query_variants # <<>> THEN sub.query_variants
    ELSE _query_variants(sub)

\* _gather(sub, constraints, queries)
_gather(sub, constraints, queries, search, fetch) ==
    GatherQueries(sub, constraints, GatherQueryList(sub, queries), 1, search, fetch)

\* the search_web calls that _gather makes (line 186), in order: the query
\* and the constraints handed over, up to the call at which a search or a
\* fetch of its urls raises
SearchCalls(sub, constraints, queries, search, fetch) ==
    LET qs == GatherQueryList(sub, queries)
        raised == {i \in 1..Len(qs) :
                     \/ ~search[i].ok
                     \/ ~GatherUrls(sub, constraints, search[i].val, fetch).ok}
        n == IF raised = {} THEN Len(qs)
             ELSE CHOOSE i \in raised : \A j \in raised : i <= j
    IN  [i \in 1..n |-> [sub |-> sub.text, query |-> qs[i],
                         constraints |-> constraints]]

\* mutant: an item of equal score replaces the kept one
RECURSIVE _dedupe_last_wins(_)
_dedupe_last_wins(items) ==
    IF items = <<>> THEN <<>>
    ELSE LET by_url == _dedupe_last_wins(SubSeq(items, 1, Len(items) - 1))
             item == items[Len(items)]
         IN  IF \A j \in 1..Len(by_url) : by_url[j].url # item.url
             THEN Append(by_url, item)
             ELSE [j \in 1..Len(by_url) |->
                     IF by_url[j].url = item.url /\ item.score >= by_url[j].score
                     THEN item ELSE by_url[j]]

\* mutant: the latest item of a url replaces the kept one, whatever its score
RECURSIVE _dedupe_newest(_)
_dedupe_newest(items) ==
    IF items = <<>> THEN <<>>
    ELSE LET by_url == _dedupe_newest(SubSeq(items, 1, Len(items) - 1))
             item == items[Len(items)]
         IN  IF \A j \in 1..Len(by_url) : by_url[j].url # item.url
             THEN Append(by_url, item)
             ELSE [j \in 1..Len(by_url) |->
                     IF by_url[j].url = item.url THEN item ELSE by_url[j]]

\* _dedupe(items): one item per url, in the order the urls first occur; a
\* later item replaces the kept one only with a strictly greater score
RECURSIVE _dedupe(_)
_dedupe(items) ==
    IF items = <<>> THEN <<>>
    ELSE LET by_url == _dedupe(SubSeq(items, 1, Len(items) - 1))
             item == items[Len(items)]
         IN  IF \A j \in 1..Len(by_url) : by_url[j].url # item.url
             THEN Append(by_url, item)
             ELSE [j \in 1..Len(by_url) |->
                     IF by_url[j].url = item.url /\ item.score > by_url[j].score
                     THEN item ELSE by_url[j]]

----------------------------------------------------------------------------
(* DeepResearchAgent: synthesis.                                           *)

TopK == 5
DefaultConfidence == 300
DefaultClaim == <<"Insufficient", "evidence.">>

\* sorted(evs, key=lambda e: e.score, reverse=True): stable, so items of
\* equal score keep their order
RECURSIVE SortedByScore(_)
SortedByScore(items) ==
    IF items = <<>> THEN <<>>
    ELSE LET front == SortedByScore(SubSeq(items, 1, Len(items) - 1))
             x == items[Len(items)]
             k == Cardinality({j \in 1..Len(front) : front[j].score >= x.score})
         IN  SubSeq(front, 1, k) \o <<x>> \o SubSeq(front, k + 1, Len(front))

\* mutant: the first five entries, unsorted
TopEvidenceUnsorted(evs) == SubSeq(evs, 1, Min(Len(evs), TopK))

\* sorted(evs, key=lambda e: e.score, reverse=True)[:5]
TopEvidence(evs) ==
    LET sorted == SortedByScore(evs)
    IN  SubSeq(sorted, 1, Min(Len(sorted), TopK))

\* notes.get(key, [])
NotesGet(nts, key) == IF key \in DOMAIN nts THEN nts[key] ELSE <<>>

RECURSIVE Sum(_)
Sum(seq) == IF seq = <<>> THEN 0 ELSE Head(seq) + Sum(Tail(seq))

\* mutant: a confidence equal to the threshold does not count as covered
_metrics_strict(findings, pl) ==
    IF findings = <<>> THEN [coverage |-> 0, average_confidence |-> 0]
    ELSE LET confidences == [i \in 1..Len(findings) |-> findings[i].claim.confidence]
             covered == SelectSeq(confidences, LAMBDA c : c > pl.confidence_threshold)
         IN  [coverage |-> RoundDiv(1000 * Len(covered), Len(confidences)),
              average_confidence |-> RoundDiv(Sum(confidences), Len(confidences))]

\* _metrics(findings, plan)
_metrics(findings, pl) ==
    IF findings = <<>> THEN [coverage |-> 0, average_confidence |-> 0]
    ELSE LET confidences == [i \in 1..Len(findings) |-> findings[i].claim.confidence]
             covered == SelectSeq(confidences, LAMBDA c : c >= pl.confidence_threshold)
         IN  [coverage |-> RoundDiv(1000 * Len(covered), Len(confidences)),
              average_confidence |-> RoundDiv(Sum(confidences), Len(confidences))]

\* Claim(text=..., support=evs, uncertainty=..., confidence=float(...)) of
\* one sub-question does not raise: the response decodes to an object, the
\* confidence converts and the two texts are strings
ClaimOk(synth) ==
    /\ synth.t = "obj"
    /\ FloatOk(Get(synth, "confidence", JFloat(DefaultConfidence)))
    /\ Get(synth, "claim", JStr(DefaultClaim)).t = "str"
    /\ Get(synth, "uncertainty", JStr(<<>>)).t = "str"

ClaimError(synth) ==
    IF synth.t # "obj" THEN "AttributeError"
    ELSE IF ~FloatOk(Get(synth, "confidence", JFloat(DefaultConfidence)))
    THEN (IF Get(synth, "confidence", JNull).t = "str" THEN "ValueError" ELSE "TypeError")
    ELSE "ValidationError"

\* mutant: an absent confidence counts as 0.0
ClaimOfZero(synth, evs) ==
    [text |-> Get(synth, "claim", JStr(DefaultClaim)).s,
     support |-> evs,
     uncertainty |-> Get(synth, "uncertainty", JStr(<<>>)).s,
     confidence |-> FloatOf(Get(synth, "confidence", JFloat(0)))]

\* the Claim of one sub-question, lines 129-134
ClaimOf(synth, evs) ==
    [text |-> Get(synth, "claim", JStr(DefaultClaim)).s,
     support |-> evs,
     uncertainty |-> Get(synth, "uncertainty", JStr(<<>>)).s,
     confidence |-> FloatOf(Get(synth, "confidence", JFloat(DefaultConfidence)))]

\* the findings of subs[i..], responses[j] being the model's answer for the
\* j-th sub-question
RECURSIVE Findings(_, _, _, _)
Findings(subs, nts, responses, i) ==
    IF i > Len(subs) THEN <<>>
    ELSE <<[sub_question |-> subs[i].text,
            claim |-> ClaimOf(_parse_json(responses[i]),
                              TopEvidence(NotesGet(nts, subs[i].text)))]>>
         \o Findings(subs, nts, responses, i + 1)

RECURSIVE Flatten(_)
Flatten(seqs) == IF seqs = <<>> THEN <<>> ELSE Head(seqs) \o Flatten(Tail(seqs))

\* _synthesize(task, plan, notes): the Briefing, or the exception raised at
\* the first sub-question whose response does not make a Claim
_synthesize(tk, pl, nts, responses) ==
    LET subs == pl.sub_questions
        bad == {i \in 1..Len(subs) : ~ClaimOk(_parse_json(responses[i]))}
    IN  IF bad # {}
        THEN Raise(ClaimError(_parse_json(responses[CHOOSE i \in bad : \A j \in bad : i <= j])))
        ELSE
        LET findings == Findings(subs, nts, responses, 1)
            with_unc == SelectSeq(findings, LAMBDA f : f.claim.uncertainty # <<>>)
        IN  Ok([title |-> tk.question,
                overview |-> tk.question,
                findings |-> findings,
                uncertainties |-> [i \in 1..Len(with_unc) |->
                                      <<with_unc[i].sub_question, with_unc[i].claim.uncertainty>>],
                sources |-> _dedupe(Flatten([i \in 1..Len(findings) |-> findings[i].claim.support])),
                metrics |-> _metrics(findings, pl)])

----------------------------------------------------------------------------
(* app/tools/files.py                                                      *)

FileX == [dir |-> "a", name |-> "x.txt", suffix |-> ".txt"]
FileX2 == [dir |-> "b", name |-> "x.txt", suffix |-> ".txt"]
FileGone == [dir |-> "a", name |-> "gone.txt", suffix |-> ".txt"]
FileMd == [dir |-> "a", name |-> "notes.md", suffix |-> ".md"]

\* the paths for which file_path.exists()
ExistingFiles == {FileX, FileX2, FileMd}

FileText(path) == <<"caffeine", path.dir>>

\* ingest_files(paths): one document per existing .txt, .csv or .pdf path,
\* titled with the file's name
ingest_files(paths) ==
    LET kept == SelectSeq(paths, LAMBDA f : f \in ExistingFiles
                                            /\ f.suffix \in {".txt", ".csv", ".pdf"})
    IN  [i \in 1..Len(kept) |-> [title |-> kept[i].name, content |-> FileText(kept[i])]]

\* the Evidence _execute makes of an ingested document
FileRelevance == 600
FileFreshness == 500
FileTrust == 700
FileScore == 600

FileEvidence(doc) ==
    [url |-> doc.title,
     title |-> <<doc.title>>,
     snippet |-> doc.content,
     source_type |-> "local_file",
     relevance |-> FileRelevance,
     freshness |-> FileFreshness,
     trust |-> FileTrust,
     score |-> FileScore]

----------------------------------------------------------------------------
(* The inputs the model draws.                                             *)

PreprintOnly == JObj([source_types |-> JList(<<JStr(<<"preprint">>)>>)])

BlogOnly == JObj([source_types |-> JList(<<JStr(<<"blog">>)>>)])

\* the constraints and file_paths arguments of run(): constraints absent,
\* valid, or rejected by EvidenceConstraints; no file, one file, two files of
\* the same name, a missing file and one of an unsupported type
RunInputs ==
    {[constraints |-> JNull, file_paths |-> <<>>],
     [constraints |-> PreprintOnly, file_paths |-> <<FileX>>],
     [constraints |-> JObj([source_types |-> JStr(<<"preprint">>)]),
      file_paths |-> <<FileX, FileX2>>],
     [constraints |-> JNull, file_paths |-> <<FileGone, FileMd>>]}

ItemA == JObj([text |-> JStr(TextA), query_variants |-> JList(<<JStr(TextA)>>)])
ItemB == JObj([text |-> JStr(TextB), priority |-> JInt(0),
               query_variants |-> JList(<<JStr(TextB)>>)])
ItemA2 == JObj([text |-> JStr(TextA), priority |-> JInt(2),
                query_variants |-> JList(<<JStr(TextA \o <<"dose">>)>>)])
ItemNoText == JObj([priority |-> JInt(1)])

PlanObj(subs) == JObj([sub_questions |-> JList(subs)])

\* a plan of one pass of the loop
PlanOnce(subs) == JObj([sub_questions |-> JList(subs), max_iterations |-> JInt(1)])

\* what the model may answer to the planning prompt
PlanResponses ==
    {NotJson, Json(JList(<<>>)), Json(JNull), Json(EmptyObj),
     Json(PlanObj(<<>>)),
     Json(PlanObj(<<ItemA>>)),
     Json(PlanOnce(<<ItemA, ItemB>>)),
     Json(PlanOnce(<<ItemA, ItemA2>>)),
     Json(PlanObj(<<ItemNoText>>)),
     Json(PlanObj(<<JStr(TextA)>>)),
     Json(JObj([sub_questions |-> JNull])),
     Json(JObj([sub_questions |-> JList(<<ItemA>>),
                confidence_threshold |-> JStr(<<"high">>)])),
     Json(JObj([sub_questions |-> JList(<<ItemA>>), max_iterations |-> JInt(1),
                confidence_threshold |-> JFloat(900)])),
     Json(JObj([sub_questions |-> JList(<<ItemA>>), max_iterations |-> JInt(1),
                confidence_threshold |-> JInt(2)])),
     Json(JObj([evidence_constraints |-> PreprintOnly, max_iterations |-> JInt(1)])),
     Json(JObj([evidence_constraints |-> BlogOnly, max_iterations |-> JInt(1)])),
     Json(JObj([evidence_constraints |-> JStr(<<"preprint">>)])),
     Json(JObj([success_criteria |-> JInt(1)]))}
    \cup {Json(JObj([sub_questions |-> JList(<<ItemA>>), max_iterations |-> mi])) :
            mi \in {JInt(n) : n \in -1..MaxIter}
                   \cup {JStr(<<"1">>), JStr(<<"many">>), JNull}}

\* what search_web may answer to one query
SearchOutcomes ==
    {SearchFailed, Ok(<<>>), Ok(<<UrlArxiv>>), Ok(<<UrlArxiv, UrlBlog>>)}

\* what fetch_page may answer for a url
FetchOutcomes(url) == {FetchFailed} \cup {Page(url, c) : c \in PageTexts(url)}

Fetches == {f \in [URLs -> UNION {FetchOutcomes(u) : u \in URLs}] :
               \A u \in URLs : f[u] \in FetchOutcomes(u)}

GoodClaim == JObj([claim |-> JStr(<<"claim">>), confidence |-> JFloat(800),
                   uncertainty |-> JStr(<<"unsure">>)])

\* what the model may answer to the synthesis prompt of one sub-question
SynthResponses ==
    {NotJson, Json(JList(<<>>)), Json(GoodClaim),
     Json(JObj([confidence |-> JStr(<<"high">>)])),
     Json(JObj([confidence |-> JInt(2)])),
     Json(JObj([claim |-> JNull]))}

FollowUp == JList(<<JStr(<<"caffeine", "dose">>)>>)

GlobalPreprint == JObj([global |-> PreprintOnly])

\* what the model may answer to the critic prompt
ReflectResponses ==
    {NotJson, Json(JList(<<>>)), Json(EmptyObj),
     Json(JObj([follow_up_queries |-> JObj(TextA :> FollowUp)])),
     Json(JObj([follow_up_queries |-> JObj(Question :> FollowUp)])),
     Json(JObj([follow_up_queries |-> JObj(TextA :> JList(<<>>))])),
     Json(JObj([follow_up_queries |-> JObj(TextA :> FollowUp),
                evidence_constraints |-> GlobalPreprint])),
     Json(JObj([follow_up_queries |-> JObj(TextA :> FollowUp),
                evidence_constraints |-> JNull])),
     Json(JObj([follow_up_queries |-> FollowUp])),
     Json(JObj([follow_up_queries |-> JNull,
                evidence_constraints |-> JStr(<<"preprint">>)]))}

----------------------------------------------------------------------------
(* DeepResearchAgent.run as a state machine.                               *)

EmptyNotes == [k \in {} |-> <<>>]

\* notes[key] = evs
NotesPut(nts, key, evs) ==
    [k \in DOMAIN nts \cup {key} |-> IF k = key THEN evs ELSE nts[k]]

\* sorted(plan.sub_questions, key=lambda s: s.priority): stable
RECURSIVE SortedByPriority(_)
SortedByPriority(subs) ==
    IF subs = <<>> THEN <<>>
    ELSE LET front == SortedByPriority(SubSeq(subs, 1, Len(subs) - 1))
             x == subs[Len(subs)]
             k == Cardinality({j \in 1..Len(front) : front[j].priority <= x.priority})
         IN  SubSeq(front, 1, k) \o <<x>> \o SubSeq(front, k + 1, Len(front))

NoLog == [plan_calls |-> 0, synth |-> 0, reflect |-> 0, mode |-> "none",
          searches |-> <<>>]

\* _execute, line 94: the loop over the sorted sub-questions goes on, or ends
ExecuteNext(pl, i) == IF i < Len(pl.sub_questions) THEN "execute" ELSE "ingest"

NoError == [type |-> "", at |-> ""]

\* what the model answered, and to which prompt: one text per call made
Answer(prompt, text) == [prompt |-> prompt, text |-> text]

Init ==
    /\ pc = "start"
    /\ task = None
    /\ file_paths = <<>>
    /\ plan = None
    /\ notes = EmptyNotes
    /\ exec_i = 0
    /\ iter = 0
    /\ draft = None
    /\ feedback = None
    /\ final = None
    /\ error = NoError
    /\ response = Answer("", <<>>)
    /\ vectorstore = "none"
    /\ log = NoLog
    /\ fin = <<>>
    /\ fout = <<>>

\* an exception leaves run()
Fails(e) == pc' = "failed" /\ error' = [type |-> e, at |-> pc]

\* run(), lines 59-61: the arguments arrive and the TaskSpec is built
Start ==
    /\ pc = "start"
    /\ \E in \in RunInputs :
          /\ task' = [question |-> Question,
                      evidence_constraints |-> _to_constraints(in.constraints)]
          /\ file_paths' = in.file_paths
    /\ pc' = "plan"
    /\ UNCHANGED <<plan, notes, exec_i, iter, draft, feedback, final, error,
                   response, log, vectorstore, fin, fout>>

\* plan = self._plan(task), and _execute is entered
Plan ==
    /\ pc = "plan"
    /\ \E r \in PlanResponses :
          LET res == _plan(task, r)
          IN  /\ response' = Answer("plan", <<r>>)
              /\ IF res.ok
                 THEN plan' = res.val /\ pc' = ExecuteNext(res.val, 0) /\ error' = error
                 ELSE plan' = plan /\ Fails(res.err)
    /\ log' = [log EXCEPT !.plan_calls = @ + 1]
    /\ UNCHANGED <<task, file_paths, notes, exec_i, iter, draft, feedback,
                   final, vectorstore, fin, fout>>

\* _execute, lines 94-96: one pass of the loop over the sorted sub-questions
ExecuteGather ==
    /\ pc = "execute"
    /\ LET subs == SortedByPriority(plan.sub_questions)
           sub == subs[exec_i + 1]
           queries == GatherQueryList(sub, <<>>)
       IN  \E search \in [1..Len(queries) -> SearchOutcomes], fetch \in Fetches :
              /\ LET res == _gather(sub, plan.evidence_constraints, <<>>, search, fetch)
                 IN  IF res.ok
                     THEN /\ notes' = NotesPut(notes, sub.text, _dedupe(res.val))
                          /\ exec_i' = exec_i + 1
                          /\ pc' = ExecuteNext(plan, exec_i + 1)
                          /\ error' = error
                     ELSE /\ Fails(res.err)
                          /\ UNCHANGED <<notes, exec_i>>
              /\ log' = [log EXCEPT !.searches =
                            SearchCalls(sub, plan.evidence_constraints, <<>>,
                                        search, fetch)]
    /\ UNCHANGED <<task, file_paths, plan, iter, draft, feedback, final,
                   response, vectorstore, fin, fout>>

\* _execute, lines 98-112: notes.setdefault(task.question, []).append(ev)
\* for every ingested document
Ingest ==
    /\ pc = "ingest"
    /\ notes' = IF file_paths # <<>> /\ ingest_files(file_paths) # <<>>
                THEN LET docs == ingest_files(file_paths)
                     IN  NotesPut(notes, task.question,
                                  NotesGet(notes, task.question)
                                  \o [i \in 1..Len(docs) |-> FileEvidence(docs[i])])
                ELSE notes
    /\ pc' = "memory"
    /\ UNCHANGED <<task, file_paths, plan, exec_i, iter, draft, feedback, final,
                   error, response, log, vectorstore, fin, fout>>

\* mutant: the loop runs once more than max_iterations
LoopNextLate(i) == IF i <= plan.max_iterations THEN "synthesize" ELSE "finish"

\* the for loop of run() starts its next iteration, or is left
LoopNext(i) == IF i < plan.max_iterations THEN "synthesize" ELSE "finish"

\* mutant: the exception of build_vectorstore leaves _execute
BuildMemoryPropagates ==
    /\ pc = "memory"
    /\ \E built \in BOOLEAN :
          /\ vectorstore' = IF built THEN "built" ELSE "failed"
          /\ IF built THEN pc' = "executed" /\ error' = error
                      ELSE Fails("Exception")
    /\ UNCHANGED <<task, file_paths, plan, notes, exec_i, iter, draft, feedback,
                   final, response, log, fin, fout>>

\* _execute, lines 114-118: build_vectorstore returns or raises, and the
\* exception is swallowed
BuildMemory ==
    /\ pc = "memory"
    /\ \E built \in BOOLEAN : vectorstore' = IF built THEN "built" ELSE "failed"
    /\ pc' = "executed"
    /\ UNCHANGED <<task, file_paths, plan, notes, exec_i, iter, draft, feedback,
                   final, error, response, log, fin, fout>>

\* _execute, line 119, and run(), lines 64-65: the notes are returned and the
\* loop is entered
ExecuteReturn ==
    /\ pc = "executed"
    /\ vectorstore' = "none"
    /\ pc' = LoopNext(0)
    /\ iter' = IF LoopNext(0) = "synthesize" THEN 1 ELSE 0
    /\ UNCHANGED <<task, file_paths, plan, notes, exec_i, draft, feedback, final,
                   error, response, log, fin, fout>>

SynthInputs == [1..Len(plan.sub_questions) -> SynthResponses]

\* draft = self._synthesize(task, plan, notes)
Synthesize ==
    /\ pc = "synthesize"
    /\ \E rs \in SynthInputs :
          LET res == _synthesize(task, plan, notes, rs)
          IN  /\ response' = Answer("synthesis", rs)
              /\ IF res.ok
                 THEN draft' = res.val /\ pc' = "reflect" /\ error' = error
                 ELSE draft' = draft /\ Fails(res.err)
    /\ log' = [log EXCEPT !.synth = @ + 1]
    /\ UNCHANGED <<task, file_paths, plan, notes, exec_i, iter, feedback, final,
                   vectorstore, fin, fout>>

\* feedback = self._reflect(plan, draft)
Reflect ==
    /\ pc = "reflect"
    /\ \E r \in ReflectResponses :
          LET data == _parse_json(r)
          IN  /\ response' = Answer("critic", <<r>>)
              /\ IF data.t = "obj"
                 THEN feedback' = data /\ pc' = "revise" /\ error' = error
                 ELSE feedback' = feedback /\ Fails("AttributeError")
    /\ log' = [log EXCEPT !.reflect = @ + 1]
    /\ UNCHANGED <<task, file_paths, plan, notes, exec_i, iter, draft, final,
                   vectorstore, fin, fout>>

\* the queries of `for q in queries` when queries is a follow-up value: a
\* list gives its items, a number is not iterable (the responses the model
\* draws hold no other kind)
FollowUpQueries(v) ==
    CASE v.t = "list" -> Ok(StrList(v))
      [] v.t \in {"int", "float"} -> Raise("TypeError")

\* _revise, lines 171-178, from the i-th sub-question on: the notes after
\* the loop, or the exception that leaves it.  search[i] answers the
\* queries of the i-th sub-question
RECURSIVE ReviseLoop(_, _, _, _, _, _, _, _)
ReviseLoop(subs, i, nts, followups, inferred, merged_constraints, search, fetch) ==
    IF i > Len(subs) THEN Ok(nts)
    ELSE IF followups.t # "obj" THEN Raise("AttributeError")
    ELSE
    LET sub == subs[i]
        extra_queries == Get(followups, sub.text, JList(<<>>))
    IN  IF ~Truthy(extra_queries)
        THEN ReviseLoop(subs, i + 1, nts, followups, inferred, merged_constraints,
                        search, fetch)
        ELSE
        LET by_sub == Get(inferred, "by_sub_question", EmptyObj) IN
        IF by_sub.t # "obj" THEN Raise("AttributeError")
        ELSE
        LET effective == _merge_constraints(merged_constraints, Get(by_sub, sub.text, JNull))
            queries == FollowUpQueries(extra_queries)
        IN  IF ~effective.ok THEN effective
            ELSE IF ~queries.ok THEN queries
            ELSE
            LET extra == _gather(sub, effective.val, queries.val, search[i], fetch)
            IN  IF ~extra.ok THEN extra
                ELSE ReviseLoop(subs, i + 1,
                                NotesPut(nts, sub.text,
                                         _dedupe(NotesGet(nts, sub.text) \o extra.val)),
                                followups, inferred, merged_constraints, search, fetch)

\* _revise, lines 166-178: the notes after the re-gathering
ReviseNotes(pl, nts, fb, search, fetch) ==
    LET followups == Get(fb, "follow_up_queries", EmptyObj)
        inferred == Get(fb, "evidence_constraints", EmptyObj)
    IN  IF inferred.t # "obj" THEN Raise("AttributeError")
        ELSE
        LET merged == _merge_constraints(pl.evidence_constraints,
                                         Get(inferred, "global", JNull))
        IN  IF ~merged.ok THEN merged
            ELSE ReviseLoop(pl.sub_questions, 1, nts, followups, inferred,
                            merged.val, search, fetch)

\* the search_web calls of the loop of _revise, from the i-th sub-question on
RECURSIVE ReviseLoopCalls(_, _, _, _, _, _, _)
ReviseLoopCalls(subs, i, followups, inferred, merged_constraints, search, fetch) ==
    IF i > Len(subs) \/ followups.t # "obj" THEN <<>>
    ELSE
    LET sub == subs[i]
        extra_queries == Get(followups, sub.text, JList(<<>>))
        by_sub == Get(inferred, "by_sub_question", EmptyObj)
    IN  IF ~Truthy(extra_queries)
        THEN ReviseLoopCalls(subs, i + 1, followups, inferred, merged_constraints,
                             search, fetch)
        ELSE IF by_sub.t # "obj" THEN <<>>
        ELSE
        LET effective == _merge_constraints(merged_constraints, Get(by_sub, sub.text, JNull))
            queries == FollowUpQueries(extra_queries)
        IN  IF ~effective.ok \/ ~queries.ok THEN <<>>
            ELSE
            LET calls == SearchCalls(sub, effective.val, queries.val, search[i], fetch)
            IN  IF ~_gather(sub, effective.val, queries.val, search[i], fetch).ok
                THEN calls
                ELSE calls \o ReviseLoopCalls(subs, i + 1, followups, inferred,
                                              merged_constraints, search, fetch)

\* the search_web calls of one _revise
ReviseCalls(pl, fb, search, fetch) ==
    LET followups == Get(fb, "follow_up_queries", EmptyObj)
        inferred == Get(fb, "evidence_constraints", EmptyObj)
        merged == _merge_constraints(pl.evidence_constraints,
                                     Get(inferred, "global", JNull))
    IN  IF inferred.t # "obj" \/ ~merged.ok THEN <<>>
        ELSE ReviseLoopCalls(pl.sub_questions, 1, followups, inferred, merged.val,
                             search, fetch)

\* mutant: _revise keeps the merged global constraints in the Plan
RevisedPlanKeepsMerge(pl, fb) ==
    LET inferred == Get(fb, "evidence_constraints", EmptyObj)
        merged == _merge_constraints(pl.evidence_constraints,
                                     Get(inferred, "global", JNull))
    IN  IF inferred.t = "obj" /\ merged.ok
        THEN [pl EXCEPT !.evidence_constraints = merged.val]
        ELSE pl

\* the Plan after _revise: merged_constraints and effective are locals
\* (lines 168 and 176), and _merge_constraints builds a new object from
\* base.model_dump(), so no field of the Plan is assigned
RevisedPlan(pl, fb) == pl

\* how many queries _revise issues for a sub-question
FollowUpCount(fb, sub) ==
    LET followups == Get(fb, "follow_up_queries", EmptyObj)
    IN  IF followups.t = "obj" /\ Get(followups, sub.text, JNull).t = "list"
        THEN Len(Get(followups, sub.text, JNull).l) ELSE 0

\* the sub-questions that _revise re-gathers
Regathered(pl, fb) ==
    {i \in 1..Len(pl.sub_questions) : FollowUpCount(fb, pl.sub_questions[i]) > 0}

\* final, notes = self._revise(...): lines 166-178, the re-gathering
ReviseGather ==
    /\ pc = "revise"
    /\ \E search \in [1..Len(plan.sub_questions) ->
                        UNION {[1..FollowUpCount(feedback, plan.sub_questions[i])
                                  -> SearchOutcomes] : i \in 1..Len(plan.sub_questions)}],
          fetch \in Fetches :
          /\ \A i \in 1..Len(plan.sub_questions) :
                Len(search[i]) = FollowUpCount(feedback, plan.sub_questions[i])
          /\ LET res == ReviseNotes(plan, notes, feedback, search, fetch)
             IN  IF res.ok
                 THEN notes' = res.val /\ pc' = "resynth" /\ error' = error
                 ELSE notes' = notes /\ Fails(res.err)
          /\ log' = [log EXCEPT !.searches = ReviseCalls(plan, feedback, search, fetch)]
    /\ plan' = RevisedPlan(plan, feedback)
    /\ UNCHANGED <<task, file_paths, exec_i, iter, draft, feedback, final,
                   response, vectorstore, fin, fout>>

\* mutant: _revise synthesizes, and run() keeps the draft as final
ReviseSynthesizeKeepsDraft ==
    /\ pc = "resynth"
    /\ \E rs \in SynthInputs :
          LET res == _synthesize(task, plan, notes, rs)
              stop == ~Truthy(Get(feedback, "follow_up_queries", JNull))
          IN  /\ response' = Answer("synthesis", rs)
              /\ IF res.ok
                 THEN /\ final' = draft
                      /\ pc' = IF stop THEN "finish" ELSE LoopNext(iter)
                      /\ iter' = IF ~stop /\ LoopNext(iter) = "synthesize"
                                 THEN iter + 1 ELSE iter
                      /\ error' = error
                 ELSE /\ Fails(res.err)
                      /\ UNCHANGED <<final, iter>>
    /\ log' = [log EXCEPT !.synth = @ + 1]
    /\ UNCHANGED <<task, file_paths, plan, notes, exec_i, draft, feedback, vectorstore, fin, fout>>

\* _revise, line 179, and run(), lines 69-70: the Briefing of the revised
\* notes becomes final; the loop is left when the follow-up map is falsy
ReviseSynthesize ==
    /\ pc = "resynth"
    /\ \E rs \in SynthInputs :
          LET res == _synthesize(task, plan, notes, rs)
              stop == ~Truthy(Get(feedback, "follow_up_queries", JNull))
          IN  /\ response' = Answer("synthesis", rs)
              /\ IF res.ok
                 THEN /\ final' = res.val
                      /\ pc' = IF stop THEN "finish" ELSE LoopNext(iter)
                      /\ iter' = IF ~stop /\ LoopNext(iter) = "synthesize"
                                 THEN iter + 1 ELSE iter
                      /\ error' = error
                 ELSE /\ Fails(res.err)
                      /\ UNCHANGED <<final, iter>>
    /\ log' = [log EXCEPT !.synth = @ + 1]
    /\ UNCHANGED <<task, file_paths, plan, notes, exec_i, draft, feedback, vectorstore, fin, fout>>

\* run(), line 71: final = final or self._synthesize(task, plan, notes)
Finish ==
    /\ pc = "finish"
    /\ IF final # None
       THEN /\ pc' = "format"
            /\ UNCHANGED <<final, error, response, log>>
       ELSE \E rs \in SynthInputs :
               LET res == _synthesize(task, plan, notes, rs)
               IN  /\ response' = Answer("synthesis", rs)
                   /\ log' = [log EXCEPT !.synth = @ + 1]
                   /\ IF res.ok
                      THEN final' = res.val /\ pc' = "format" /\ error' = error
                      ELSE final' = final /\ Fails(res.err)
    /\ UNCHANGED <<task, file_paths, plan, notes, exec_i, iter, draft, feedback,
                   vectorstore, fin, fout>>

\* run(), lines 72-74: _essay(task, plan, final) or _format(final)
Format ==
    /\ pc = "format"
    /\ \E mode \in {"briefing", "essay"} : log' = [log EXCEPT !.mode = mode]
    /\ pc' = "done"
    /\ UNCHANGED <<task, file_paths, plan, notes, exec_i, iter, draft, feedback,
                   final, error, response, vectorstore, fin, fout>>

Next ==
    \/ Start
    \/ Plan
    \/ ExecuteGather
    \/ Ingest
    \/ BuildMemory
    \/ ExecuteReturn
    \/ Synthesize
    \/ Reflect
    \/ ReviseGather
    \/ ReviseSynthesize
    \/ Finish
    \/ Format

Spec == Init /\ [][Next]_vars

----------------------------------------------------------------------------
(* _dedupe on its own: every Evidence list of at most MaxLen items.        *)

SampleTexts == {<<"caffeine", "sleep", "2019">>, <<"sleep", "journal">>}

\* Evidence as _gather builds it, for two urls, two page texts and two
\* sub-questions: several scores per url, and equal scores on distinct items
SampleEvidence ==
    {_build_evidence(u, Page(u, c).val, _infer_source_type(u, <<u>>, c), q) :
        u \in URLs, c \in SampleTexts, q \in {TextA, TextB}}

EvidenceLists == UNION {[1..n -> SampleEvidence] : n \in 0..MaxLen}

InitDedupe ==
    /\ pc = "dedupe"
    /\ fin \in EvidenceLists
    /\ fout = <<>>
    /\ task = None
    /\ file_paths = <<>>
    /\ plan = None
    /\ notes = EmptyNotes
    /\ exec_i = 0
    /\ iter = 0
    /\ draft = None
    /\ feedback = None
    /\ final = None
    /\ error = NoError
    /\ response = Answer("", <<>>)
    /\ vectorstore = "none"
    /\ log = NoLog

DedupeCall ==
    /\ pc = "dedupe"
    /\ fout' = _dedupe(fin)
    /\ pc' = "deduped"
    /\ UNCHANGED <<task, file_paths, plan, notes, exec_i, iter, draft, feedback,
                   final, error, response, vectorstore, log, fin>>

NextDedupe == DedupeCall

SpecDedupe == InitDedupe /\ [][NextDedupe]_vars

----------------------------------------------------------------------------
(* _gather on its own: query lists of at most MaxQueries queries, under    *)
(* constraints on source types and years.                                  *)

GatherTexts ==
    {<<"caffeine", "sleep", "2019">>, <<"sleep", "journal">>, <<"sleep", "2019", "2023">>}

SourceTypeLists ==
    {JNull, JList(<<>>), JList(<<JStr(<<"peer_reviewed">>)>>),
     JList(<<JStr(<<"preprint">>), JStr(<<"blog">>)>>)}

TimeRanges ==
    {JNull, JObj([start_year |-> JInt(2020)]), JObj([end_year |-> JInt(2020)]),
     JObj([start_year |-> JInt(2019), end_year |-> JInt(2023)])}

\* the constraints argument of _gather: None, or an EvidenceConstraints
GatherConstraints ==
    {None} \cup {EvidenceConstraints([source_types |-> st, time_range |-> tr]) :
                    st \in SourceTypeLists, tr \in TimeRanges}

\* the sub-question of the call
GatherSub == [text |-> TextA, priority |-> 1, tactics |-> <<>>, query_variants |-> <<>>]

\* the queries argument: n follow-up queries
GatherQueryLists ==
    {[i \in 1..n |-> TextA \o [j \in 1..(i - 1) |-> "dose"]] : n \in 1..MaxQueries}

GatherURLs == URLs \cup {UrlDoi}

GatherSearches == SearchOutcomes \cup {Ok(<<UrlBlog>>), Ok(<<UrlBlog, UrlDoi>>)}

GatherFetches == [GatherURLs -> {Page(u, c) : u \in GatherURLs, c \in GatherTexts}]

InitGather ==
    /\ pc = "gather"
    /\ \E c \in GatherConstraints, q \in GatherQueryLists :
          \E search \in [1..Len(q) -> GatherSearches], fetch \in GatherFetches :
             /\ \A u \in GatherURLs : fetch[u].val.title = <<u>>
             /\ fin = [sub |-> GatherSub, constraints |-> c, queries |-> q,
                       search |-> search, fetch |-> fetch]
    /\ fout = <<>>
    /\ task = None
    /\ file_paths = <<>>
    /\ plan = None
    /\ notes = EmptyNotes
    /\ exec_i = 0
    /\ iter = 0
    /\ draft = None
    /\ feedback = None
    /\ final = None
    /\ error = NoError
    /\ response = Answer("", <<>>)
    /\ vectorstore = "none"
    /\ log = NoLog

GatherCall ==
    /\ pc = "gather"
    /\ fout' = _gather(fin.sub, fin.constraints, fin.queries, fin.search, fin.fetch)
    /\ pc' = "gathered"
    /\ UNCHANGED <<task, file_paths, plan, notes, exec_i, iter, draft, feedback,
                   final, error, response, vectorstore, log, fin>>

NextGather == GatherCall

SpecGather == InitGather /\ [][NextGather]_vars

----------------------------------------------------------------------------
(* _metrics on its own: findings lists of at most MaxFindings findings.    *)

\* the confidences of the findings and the thresholds of the plan
SampleConfidences == {300, 400, 800, 900}
SampleThresholds == {0, 650, 800, 1000}

\* a finding as _synthesize builds it, for the confidence c
SampleFinding(c) ==
    [sub_question |-> TextA,
     claim |-> [text |-> DefaultClaim, support |-> <<>>, uncertainty |-> <<>>,
                confidence |-> c]]

FindingsLists ==
    UNION {[1..n -> {SampleFinding(c) : c \in SampleConfidences}] : n \in 0..MaxFindings}

InitMetrics ==
    /\ pc = "metrics"
    /\ \E f \in FindingsLists, t \in SampleThresholds :
          fin = [findings |-> f, plan |-> [confidence_threshold |-> t]]
    /\ fout = <<>>
    /\ task = None
    /\ file_paths = <<>>
    /\ plan = None
    /\ notes = EmptyNotes
    /\ exec_i = 0
    /\ iter = 0
    /\ draft = None
    /\ feedback = None
    /\ final = None
    /\ error = NoError
    /\ response = Answer("", <<>>)
    /\ vectorstore = "none"
    /\ log = NoLog

MetricsCall ==
    /\ pc = "metrics"
    /\ fout' = _metrics(fin.findings, fin.plan)
    /\ pc' = "measured"
    /\ UNCHANGED <<task, file_paths, plan, notes, exec_i, iter, draft, feedback,
                   final, error, response, vectorstore, log, fin>>

NextMetrics == MetricsCall

SpecMetrics == InitMetrics /\ [][NextMetrics]_vars

----------------------------------------------------------------------------
(* _merge_constraints on its own, and the two merges of one _revise.       *)

\* the base: no constraints, one field set, every field set
MergeBases ==
    {None, EvidenceConstraints(PreprintOnly.o),
     EvidenceConstraints([source_types |-> JList(<<JStr(<<"blog">>)>>),
                          time_range |-> JObj([start |-> JInt(2019)]),
                          quality |-> JStr(<<"high">>)])}

\* the override: absent, empty, all null, some fields set, an empty list,
\* a value EvidenceConstraints rejects, and a value that is no dict
MergeOverrides ==
    {JNull, EmptyObj,
     JObj([source_types |-> JNull]),
     JObj([source_types |-> JNull, time_range |-> JNull, quality |-> JNull]),
     BlogOnly,
     JObj([source_types |-> JNull, quality |-> JStr(<<"peer">>)]),
     JObj([source_types |-> JList(<<>>), time_range |-> JObj([end |-> JInt(2021)])]),
     JObj([source_types |-> JStr(<<"preprint">>)]),
     JStr(<<"preprint">>)}

\* a Plan of the one sub-question TextA with the constraints base
MergePlan(base) ==
    [sub_questions |-> <<SubQuestion(ItemA)>>,
     success_criteria |-> <<>>,
     max_iterations |-> DefaultMaxIterations,
     confidence_threshold |-> DefaultConfidenceThreshold,
     evidence_constraints |-> base]

\* the critic's answer: a follow-up for TextA, a global override and one
\* for TextA
MergeFeedback(global, per_sub) ==
    JObj([follow_up_queries |-> JObj(TextA :> FollowUp),
          evidence_constraints |->
              JObj([global |-> global, by_sub_question |-> JObj(TextA :> per_sub)])])

InitMerge ==
    /\ pc = "merge"
    /\ \E b \in MergeBases, g \in MergeOverrides, s \in MergeOverrides :
          fin = [base |-> b, global |-> g, per_sub |-> s]
    /\ fout = <<>>
    /\ task = None
    /\ file_paths = <<>>
    /\ plan = None
    /\ notes = EmptyNotes
    /\ exec_i = 0
    /\ iter = 0
    /\ draft = None
    /\ feedback = None
    /\ final = None
    /\ error = NoError
    /\ response = Answer("", <<>>)
    /\ vectorstore = "none"
    /\ log = NoLog

\* _merge_constraints(base, global), and the search_web calls of the
\* _revise of a Plan with base under the two overrides, every search and
\* fetch succeeding
MergeCall ==
    /\ pc = "merge"
    /\ LET search == <<[q \in 1..Len(FollowUp.l) |-> Ok(<<UrlArxiv>>)]>>
           fetch == CHOOSE f \in Fetches : \A u \in URLs : f[u].ok
       IN  fout' = [merged |-> _merge_constraints(fin.base, fin.global),
                    calls |-> ReviseCalls(MergePlan(fin.base),
                                          MergeFeedback(fin.global, fin.per_sub),
                                          search, fetch)]
    /\ pc' = "merged"
    /\ UNCHANGED <<task, file_paths, plan, notes, exec_i, iter, draft, feedback,
                   final, error, response, vectorstore, log, fin>>

NextMerge == MergeCall

SpecMerge == InitMerge /\ [][NextMerge]_vars

----------------------------------------------------------------------------
(* _synthesize on its own: Notes entries of at most MaxNotes items.        *)

\* Evidence of the sub-question TextA as _gather builds it: two scores, each
\* on two distinct urls
SynthEvidence ==
    {_build_evidence(u, Page(u, c).val, _infer_source_type(u, <<u>>, c), TextA) :
        u \in URLs, c \in SampleTexts}

\* a Plan of one sub-question, of two, and of two with the same text; Notes
\* with an entry for TextA; the model answers every prompt with GoodClaim
InitSynth ==
    /\ pc = "synth"
    /\ \E subs \in {<<ItemA>>, <<ItemA, ItemB>>, <<ItemA, ItemA2>>},
          evs \in UNION {[1..n -> SynthEvidence] : n \in 0..MaxNotes} :
          fin = [plan |-> [MergePlan(None) EXCEPT !.sub_questions =
                              [i \in 1..Len(subs) |-> SubQuestion(subs[i])]],
                 notes |-> NotesPut(EmptyNotes, TextA, evs)]
    /\ fout = <<>>
    /\ task = None
    /\ file_paths = <<>>
    /\ plan = None
    /\ notes = EmptyNotes
    /\ exec_i = 0
    /\ iter = 0
    /\ draft = None
    /\ feedback = None
    /\ final = None
    /\ error = NoError
    /\ response = Answer("", <<>>)
    /\ vectorstore = "none"
    /\ log = NoLog

SynthCall ==
    /\ pc = "synth"
    /\ fout' = _synthesize([question |-> Question, evidence_constraints |-> None],
                           fin.plan, fin.notes,
                           [i \in 1..Len(fin.plan.sub_questions) |-> Json(GoodClaim)])
    /\ pc' = "synthesized"
    /\ UNCHANGED <<task, file_paths, plan, notes, exec_i, iter, draft, feedback,
                   final, error, response, vectorstore, log, fin>>

NextSynth == SynthCall

SpecSynth == InitSynth /\ [][NextSynth]_vars

----------------------------------------------------------------------------
(* The claims.                                                             *)

\* C1: with max_iterations = N >= 1, one run makes at most N calls of
\* _synthesize, those made inside _revise included.
C1_AtMostNSynthesizePasses ==
    (plan # None /\ plan.max_iterations >= 1) => log.synth <= plan.max_iterations

\* C2: once the critic has reflected and the loop is left, no further
\* synthesize pass was made: the Briefing handed to FORMAT is the one the
\* critic reflected on.
C2_FormatsTheReflectedBriefing ==
    (pc \in {"format", "done"} /\ log.reflect >= 1) => final = draft

\* the order of the positions of run()
PhaseOf(p) ==
    CASE p = "start" -> 0
      [] p = "plan" -> 1
      [] p = "execute" -> 2
      [] p = "ingest" -> 3
      [] p = "memory" -> 4
      [] p = "executed" -> 5
      [] p = "synthesize" -> 6
      [] p = "reflect" -> 7
      [] p = "revise" -> 8
      [] p = "resynth" -> 9
      [] p = "finish" -> 10
      [] p = "format" -> 11
      [] p \in {"done", "failed"} -> 12

\* C3, in every state: the passes of the loop and the REFLECT passes made
\* so far do not exceed max_iterations.
C3_Bounded ==
    (plan # None /\ plan.max_iterations >= 0) =>
        /\ iter <= plan.max_iterations
        /\ log.reflect <= iter

\* C3, in every step: run() moves to a later position, or to the next
\* sub-question of EXECUTE, or to the next pass of the loop; a pass is
\* started only within max_iterations.
C3_Advances ==
    \/ PhaseOf(pc') > PhaseOf(pc)
    \/ /\ pc = "execute" /\ pc' = "execute"
       /\ exec_i' = exec_i + 1 /\ exec_i' < Len(plan.sub_questions)
    \/ /\ pc = "resynth" /\ pc' = "synthesize"
       /\ iter' = iter + 1 /\ iter' <= plan.max_iterations

C4_RetrievalFailureNeverAborts ==
    ~(pc = "failed" /\ error.type = "RequestException")

\* C5: _plan calls the model once, does not raise and returns a Plan,
\* whatever the model answers.
C5_PlanNeverRaises ==
    log.plan_calls >= 1 => (log.plan_calls = 1 /\ plan # None /\ pc # "failed")

\* C6: no answer of the model makes SYNTHESIZE, REFLECT or the REVISE that
\* reads the feedback raise.
C6_SynthesisAndCritiqueNeverRaise ==
    ~(/\ pc = "failed"
      /\ error.at \in {"synthesize", "reflect", "revise", "resynth", "finish"}
      /\ error.type # "RequestException")

\* the Briefing that the latest synthesis answers went into
LatestBriefing == IF pc = "reflect" THEN draft ELSE final

\* C7, in every state: a synthesis answer that is not JSON gives the claim
\* "Insufficient evidence." with confidence 0.3, no uncertainty and the top
\* evidence of Notes as support; a critic answer that is not JSON gives the
\* empty feedback object; and no step fails on answers that are not JSON.
C7_LocalDefaults ==
    /\ (response.prompt = "synthesis" /\ pc # "failed") =>
          \A i \in 1..Len(plan.sub_questions) :
              ~response.text[i].json =>
                  LET c == LatestBriefing.findings[i].claim
                  IN  /\ c.text = <<"Insufficient", "evidence.">>
                      /\ c.confidence = 300
                      /\ c.uncertainty = <<>>
                      /\ c.support = TopEvidence(NotesGet(notes, plan.sub_questions[i].text))
    /\ (response.prompt = "critic" /\ pc # "failed") =>
          (~response.text[1].json => feedback = EmptyObj)
    /\ (pc = "failed" /\ error.at \in {"plan", "reflect", "revise"}) => response.text[1].json
    /\ (pc = "failed" /\ error.at \in {"synthesize", "resynth", "finish"}) =>
          \E i \in 1..Len(plan.sub_questions) : response.text[i].json

\* C7, in every step: with the empty feedback object REVISE leaves Notes
\* as they are and the loop is left after its synthesize pass.
C7_EmptyFeedbackStops ==
    /\ (pc = "revise" /\ feedback = EmptyObj) => (pc' = "resynth" /\ notes' = notes)
    /\ (pc = "resynth" /\ feedback = EmptyObj) => pc' \in {"finish", "failed"}

\* C7: a response that is not valid JSON is recovered locally with a safe
\* default, at SYNTHESIZE and at REFLECT, and the loop stops after it.
C7_ParseFailureRecovered == []C7_LocalDefaults /\ [][C7_EmptyFeedbackStops]_vars

\* C7 witness: the critic's answer was not JSON, after a synthesis whose
\* answer was not JSON either and whose claim has support.
C7_Witness ==
    /\ pc = "revise"
    /\ response = Answer("critic", <<NotJson>>)
    /\ draft.findings[1].claim.text = DefaultClaim
    /\ draft.findings[1].claim.support # <<>>

\* a planning answer with no parseable sub-questions: not JSON, or an object
\* without sub_questions or with an empty list
NoParseableSubQuestions(r) ==
    \/ ~r.json
    \/ /\ r.value.t = "obj"
       /\ \/ "sub_questions" \notin DOMAIN r.value.o
          \/ r.value.o["sub_questions"] = JList(<<>>)

\* C8: a planning answer with no parseable sub-questions gives the Plan of
\* one SubQuestion, the original question with priority 1; no Plan has an
\* empty sub-question list.
C8_PlanFallback ==
    plan # None =>
        /\ Len(plan.sub_questions) >= 1
        /\ (response.prompt = "plan" /\ NoParseableSubQuestions(response.text[1])) =>
              /\ Len(plan.sub_questions) = 1
              /\ plan.sub_questions[1].text = task.question
              /\ plan.sub_questions[1].priority = 1

\* C8 witness: EXECUTE has gathered for the fallback plan of an answer that
\* is an object with an empty sub_questions list.
C8_Witness ==
    /\ pc = "ingest"
    /\ response = Answer("plan", <<Json(PlanObj(<<>>))>>)

NoDuplicateUrls(evs) ==
    \A i, j \in 1..Len(evs) : evs[i].url = evs[j].url => i = j

\* C9: from the end of EXECUTE on, no Notes entry holds two Evidence with
\* the same url.
C9_NotesUrlsUnique ==
    pc \in {"memory", "executed", "synthesize", "reflect", "revise", "resynth",
            "finish", "format", "done"} =>
        \A k \in DOMAIN notes : NoDuplicateUrls(notes[k])

\* C10: _dedupe returns one Evidence per distinct url of its input, and it
\* is the input item of the highest score for that url, the earliest one
\* when scores tie.
C10_DedupeKeepsFirstBest ==
    pc = "deduped" =>
        /\ {fout[j].url : j \in 1..Len(fout)} = {fin[i].url : i \in 1..Len(fin)}
        /\ NoDuplicateUrls(fout)
        /\ \A j \in 1..Len(fout) :
              \E i \in 1..Len(fin) :
                  /\ fout[j] = fin[i]
                  /\ \A k \in 1..Len(fin) :
                        fin[k].url = fin[i].url =>
                            \/ fin[k].score < fin[i].score
                            \/ fin[k].score = fin[i].score /\ i <= k

\* C10 witness: the input holds two different items of one url and one score.
C10_Witness ==
    /\ pc = "deduped"
    /\ \E i, k \in 1..Len(fin) :
          /\ i < k
          /\ fin[i].url = fin[k].url
          /\ fin[i].score = fin[k].score
          /\ fin[i] # fin[k]

\* the source_types the caller of run() asked for, {} when there are none
CallerSourceTypes ==
    IF task # None /\ task.evidence_constraints # None
       /\ Truthy(task.evidence_constraints["source_types"])
    THEN Range(StrList(task.evidence_constraints["source_types"]))
    ELSE {}

\* C11: when the caller gave a non-empty source_types set, then after
\* EXECUTE every Evidence under a sub-question's key of Notes has a
\* source_type of that set, and no url occurs twice under the key.
C11_NotesRespectCallerSourceTypes ==
    (pc \in {"memory", "executed"} /\ CallerSourceTypes # {}) =>
        \A i \in 1..Len(plan.sub_questions) :
            LET evs == NotesGet(notes, plan.sub_questions[i].text)
            IN  /\ \A j \in 1..Len(evs) : <<evs[j].source_type>> \in CallerSourceTypes
                /\ NoDuplicateUrls(evs)

\* the 4-digit year tokens of an Evidence's url and text
YearsFound(e) == {YearOf(w) : w \in ({e.url} \cup Range(e.snippet)) \cap YearWords}

\* an Evidence satisfies constraints c: its source_type is one of a non-empty
\* source_types, and its latest year, if it has one, is within time_range
Satisfies(c, e) ==
    /\ Truthy(c["source_types"]) =>
          \E i \in 1..Len(c["source_types"].l) : c["source_types"].l[i].s = <<e.source_type>>
    /\ (Truthy(c["time_range"]) /\ YearsFound(e) # {}) =>
          LET latest == CHOOSE y \in YearsFound(e) : \A z \in YearsFound(e) : z <= y
              tr == c["time_range"].o
          IN  /\ "start_year" \in DOMAIN tr => latest >= tr["start_year"].i
              /\ "end_year" \in DOMAIN tr => latest <= tr["end_year"].i

\* the Evidence of every page a _gather call fetched, in the order fetched
RECURSIVE Fetched(_, _)
Fetched(in, i) ==
    IF i > Len(in.queries) THEN <<>>
    ELSE LET urls == in.search[i].val
         IN  [j \in 1..Len(urls) |->
                 LET meta == in.fetch[urls[j]].val
                 IN  _build_evidence(urls[j], meta,
                                     _infer_source_type(urls[j], meta.title, meta.content),
                                     in.sub.text)]
             \o Fetched(in, i + 1)

\* C12: with constraints present, _gather returns the Evidence of the pages
\* it fetched that satisfy the constraints, each once per fetch and in the
\* order fetched: no returned item violates them, no satisfying item is
\* lost, and a dropped item is not in the result.
C12_GatherFilters ==
    (pc = "gathered" /\ fin.constraints # None /\ fout.ok) =>
        /\ \A j \in 1..Len(fout.val) : Satisfies(fin.constraints, fout.val[j])
        /\ fout.val = SelectSeq(Fetched(fin, 1), LAMBDA e : Satisfies(fin.constraints, e))

\* C12 witness: under source_types ["peer_reviewed"] a blog page was fetched
\* and dropped while a doi.org page was kept.
C12_Witness ==
    /\ pc = "gathered" /\ fin.constraints # None /\ fout.ok
    /\ fin.constraints["source_types"] = JList(<<JStr(<<"peer_reviewed">>)>>)
    /\ \E j \in 1..Len(Fetched(fin, 1)) : Fetched(fin, 1)[j].source_type = "blog"
    /\ Len(fout.val) >= 1

\* the Briefings a run holds
Briefings == {draft, final} \ {None}

\* C13, the Plan: max_iterations >= 1 and confidence_threshold in [0, 1]
C13_PlanInRange ==
    plan # None =>
        /\ plan.max_iterations >= 1
        /\ plan.confidence_threshold \in 0..1000

\* C13, the Claims: every confidence in [0, 1]
C13_ConfidenceInRange ==
    \A b \in Briefings : \A i \in 1..Len(b.findings) :
        b.findings[i].claim.confidence \in 0..1000

\* C13, the metrics: coverage and average_confidence in [0, 1]
C13_MetricsInRange ==
    \A b \in Briefings :
        /\ b.metrics.coverage \in 0..1000
        /\ b.metrics.average_confidence \in 0..1000

\* C13: whatever the model answers, every Plan has max_iterations >= 1 and
\* a confidence_threshold in [0, 1], every Claim a confidence in [0, 1], and
\* every Briefing a coverage and an average_confidence in [0, 1].
C13_ValueRanges == C13_PlanInRange /\ C13_ConfidenceInRange /\ C13_MetricsInRange

\* r is x / n rounded to the nearest whole number (x and r in thousandths)
IsRounded(r, x, n) ==
    LET d == n * r - x
    IN  IF d >= 0 THEN 2 * d <= n ELSE 2 * (-d) <= n

\* C14: coverage is the fraction of the findings whose confidence is at
\* least the threshold and average_confidence the mean of the confidences,
\* each rounded to 3 decimals; both are 0.0 with no findings; and
\* [0.8, 0.4, 0.9] with threshold 0.65 give 0.667 and 0.7.
C14_Metrics ==
    pc = "measured" =>
        LET n == Len(fin.findings)
            cs == [i \in 1..n |-> fin.findings[i].claim.confidence]
            k == Cardinality({i \in 1..n : cs[i] >= fin.plan.confidence_threshold})
        IN  /\ n = 0 => fout = [coverage |-> 0, average_confidence |-> 0]
            /\ n > 0 => /\ IsRounded(fout.coverage, 1000 * k, n)
                        /\ IsRounded(fout.average_confidence, Sum(cs), n)
            /\ (cs = <<800, 400, 900>> /\ fin.plan.confidence_threshold = 650) =>
                  fout = [coverage |-> 667, average_confidence |-> 700]

\* C14 witness: the metrics of [0.8, 0.4, 0.9] with threshold 0.65.
C14_Witness ==
    /\ pc = "measured"
    /\ fin.plan.confidence_threshold = 650
    /\ Len(fin.findings) = 3
    /\ fin.findings[1].claim.confidence = 800
    /\ fin.findings[2].claim.confidence = 400
    /\ fin.findings[3].claim.confidence = 900
    /\ fout.coverage = 667

\* C15: every Evidence in Notes has a score in [0, 1] that is the mean of
\* its relevance, freshness and trust rounded to 3 decimals, in every state
\* of a run: after gathering, file ingestion, every dedup and every REVISE.
C15_ScoreIsRoundedMean ==
    \A k \in DOMAIN notes : \A j \in 1..Len(notes[k]) :
        LET e == notes[k][j]
        IN  /\ e.score \in 0..1000
            /\ IsRounded(e.score, e.relevance + e.freshness + e.trust, 3)

\* C15 witness: after a REVISE that gathered, a Notes entry holds a file's
\* Evidence beside gathered Evidence.
C15_Witness ==
    /\ pc = "resynth"
    /\ Truthy(Get(feedback, "follow_up_queries", JNull))
    /\ \E k \in DOMAIN notes : \E i, j \in 1..Len(notes[k]) :
          /\ notes[k][i].source_type = "local_file"
          /\ notes[k][j].source_type # "local_file"

\* C16: when the memory-index build raises, the step out of it is the step of
\* a successful build: the Notes are unchanged, no error is recorded, _execute
\* returns, and the loop of run() is entered at SYNTHESIZE (for a Plan of at
\* least one iteration) with the same Notes.
C16_BuildStep ==
    pc = "memory" =>
        /\ pc' = "executed"
        /\ notes' = notes
        /\ error' = error
        /\ vectorstore' \in {"built", "failed"}

C16_ReturnStep ==
    pc = "executed" /\ vectorstore = "failed" =>
        /\ notes' = notes
        /\ error' = NoError
        /\ plan.max_iterations >= 1 => pc' = "synthesize"

C16_MemoryFailureSwallowed ==
    /\ [](vectorstore = "failed" => pc = "executed" /\ error = NoError)
    /\ [][C16_BuildStep /\ C16_ReturnStep]_vars

\* C16 witness: the build has failed over non-empty Notes, and the run is
\* about to enter the loop.
C16_Witness ==
    /\ pc = "executed"
    /\ vectorstore = "failed"
    /\ plan.max_iterations >= 1
    /\ \E k \in DOMAIN notes : notes[k] # <<>>

\* C17: after the ingestion of EXECUTE with local files, the Notes hold one
\* Evidence per ingested document (local_file, relevance 0.6, freshness 0.5,
\* trust 0.7, score 0.6) at the end of the question's entry, and no
\* sub-question's entry holds a local_file Evidence, whatever the Plan.
LocalFileItems(evs) == SelectSeq(evs, LAMBDA e : e.source_type = "local_file")

C17_OnePerDocument ==
    LET docs == ingest_files(file_paths)
        evs == NotesGet(notes, task.question)
        files == SubSeq(evs, Len(evs) - Len(docs) + 1, Len(evs))
    IN  /\ Len(LocalFileItems(evs)) = Len(docs)
        /\ Len(evs) >= Len(docs)
        /\ \A i \in 1..Len(docs) :
              /\ files[i].url = docs[i].title
              /\ files[i].source_type = "local_file"
              /\ files[i].relevance = 600
              /\ files[i].freshness = 500
              /\ files[i].trust = 700
              /\ files[i].score = 600

C17_UnderNoSubQuestion ==
    \A i \in 1..Len(plan.sub_questions) :
        LocalFileItems(NotesGet(notes, plan.sub_questions[i].text)) = <<>>

C17_FileEvidenceUnderQuestionOnly ==
    pc = "memory" /\ file_paths # <<>> =>
        C17_OnePerDocument /\ C17_UnderNoSubQuestion

\* C18: once PLAN has produced the Plan, no step up to FORMAT changes any
\* of its fields; so a REVISE whose critic inferred no constraints searches
\* under the Plan's own constraints, whatever earlier iterations inferred.
C18_PlanStep == plan # None => plan' = plan

C18_SameBase ==
    (pc = "resynth" /\ Get(feedback, "evidence_constraints", JNull) = JNull) =>
        \A i \in 1..Len(log.searches) :
            log.searches[i].constraints = plan.evidence_constraints

C18_PlanNeverChanged == [][C18_PlanStep]_vars /\ []C18_SameBase

\* C18 witness: the second REVISE of a run has searched under constraints
\* merged from the critic's global override, and the Plan still has none.
C18_Witness ==
    /\ pc = "resynth"
    /\ log.reflect = 2
    /\ plan.evidence_constraints = None
    /\ Get(feedback, "evidence_constraints", JNull) = GlobalPreprint
    /\ log.searches # <<>>
    /\ log.searches[1].constraints # None

\* C19: _merge_constraints(base, override), when it returns, is a field-wise
\* override merge: each field of the result is the override's value when that
\* is non-null and the base's otherwise.  With an absent or all-null override
\* the result has the base's fields: it is the base when there is one; with
\* no base it is no constraints for an absent or empty override, and
\* constraints of three null fields for a non-empty all-null override.  The
\* constraints of a REVISE search are merge(merge(plan, global), per-sub).
FieldOf(c, k) == IF c = None THEN JNull ELSE c[k]

OverrideField(ov, k) == IF ov.t = "obj" /\ k \in DOMAIN ov.o THEN ov.o[k] ELSE JNull

AllNull(ov) == \A k \in ECFields : OverrideField(ov, k) = JNull

FieldMerge(base, ov) ==
    [k \in ECFields |-> IF OverrideField(ov, k) # JNull THEN OverrideField(ov, k)
                        ELSE FieldOf(base, k)]

IsFieldMerge(r, base, ov) == \A k \in ECFields : FieldOf(r, k) = FieldMerge(base, ov)[k]

C19_FieldWise ==
    fout.merged.ok => IsFieldMerge(fout.merged.val, fin.base, fin.global)

C19_NullOverride ==
    (fout.merged.ok /\ AllNull(fin.global)) =>
        IF fin.base # None THEN fout.merged.val = fin.base
        ELSE IF Truthy(fin.global) THEN fout.merged.val = EvidenceConstraints(EmptyMap)
        ELSE fout.merged.val = None

C19_ReviseMerges ==
    fout.calls # <<>> =>
        /\ Len(fout.calls) = Len(FollowUp.l)
        /\ \A i \in 1..Len(fout.calls) :
              IsFieldMerge(fout.calls[i].constraints,
                           FieldMerge(fin.base, fin.global), fin.per_sub)

FollowUpsFor(text) ==
    LET f == Get(feedback, "follow_up_queries", EmptyObj)
    IN  IF f.t = "obj" /\ text \in DOMAIN f.o /\ f.o[text].t = "list"
        THEN StrList(f.o[text]) ELSE <<>>

RECURSIVE ExpectedSearches(_)
ExpectedSearches(i) ==
    IF i > Len(plan.sub_questions) THEN <<>>
    ELSE LET text == plan.sub_questions[i].text
             qs == FollowUpsFor(text)
         IN  [j \in 1..Len(qs) |-> [sub |-> text, query |-> qs[j]]]
             \o ExpectedSearches(i + 1)

Issued ==
    [i \in 1..Len(log.searches) |->
        [sub |-> log.searches[i].sub, query |-> log.searches[i].query]]

IsPrefix(a, b) == Len(a) <= Len(b) /\ SubSeq(b, 1, Len(a)) = a

C20_ReviseSearches ==
    /\ pc = "resynth" => Issued = ExpectedSearches(1)
    /\ (pc = "failed" /\ error.at = "revise") => IsPrefix(Issued, ExpectedSearches(1))

C20_ExecuteSearches ==
    (pc \in {"execute", "ingest", "memory", "executed"} /\ exec_i >= 1) =>
        LET sub == SortedByPriority(plan.sub_questions)[exec_i]
            qs == IF sub.query_variants # <<>> THEN sub.query_variants
                  ELSE _query_variants(sub)
        IN  Issued = [j \in 1..Len(qs) |-> [sub |-> sub.text, query |-> qs[j]]]

C20_ReviseStep ==
    (pc = "revise" /\ pc' = "resynth") =>
        /\ DOMAIN notes \subseteq DOMAIN notes'
        /\ \A k \in DOMAIN notes' :
              FollowUpsFor(k) = <<>> \/ (\A i \in 1..Len(plan.sub_questions) :
                                            plan.sub_questions[i].text # k)
                  => k \in DOMAIN notes /\ notes'[k] = notes[k]

C20_Queries ==
    /\ [](C20_ReviseSearches /\ C20_ExecuteSearches)
    /\ [][C20_ReviseStep]_vars

\* C20 witness: of two sub-questions that both have query_variants, the
\* critic listed a follow-up for one; REVISE has searched that follow-up and
\* nothing else.
C20_Witness ==
    /\ pc = "resynth"
    /\ Len(plan.sub_questions) = 2
    /\ \A i \in 1..2 : plan.sub_questions[i].query_variants # <<>>
    /\ Len(log.searches) = 1
    /\ log.searches[1].sub = TextA
    /\ log.searches[1].query = <<"caffeine", "dose">>

\* C21: the Briefing of a synthesize pass has one finding per sub-question
\* of the Plan, in plan order; each finding's support has at most 5 Evidence
\* in non-increasing score order, all of them entries of the sub-question's
\* Notes, as many as the Notes allow, and no entry left out scores strictly
\* higher than one included.
Count(seq, x) == Cardinality({i \in 1..Len(seq) : seq[i] = x})

IsTopSupport(s, evs) ==
    /\ Len(s) <= 5
    /\ Len(s) = IF Len(evs) < 5 THEN Len(evs) ELSE 5
    /\ \A i \in 1..(Len(s) - 1) : s[i].score >= s[i + 1].score
    /\ \A x \in Range(s) : Count(s, x) <= Count(evs, x)
    /\ \A x \in Range(evs) : Count(s, x) < Count(evs, x) =>
          \A y \in Range(s) : x.score <= y.score

IsBriefingOf(b, pl, nts) ==
    /\ Len(b.findings) = Len(pl.sub_questions)
    /\ \A i \in 1..Len(pl.sub_questions) :
          /\ b.findings[i].sub_question = pl.sub_questions[i].text
          /\ IsTopSupport(b.findings[i].claim.support,
                          NotesGet(nts, pl.sub_questions[i].text))

C21_TopSupport ==
    pc = "synthesized" => fout.ok /\ IsBriefingOf(fout.val, fin.plan, fin.notes)

\* C21 witness: of six Notes entries whose first scores lowest, five are in
\* the support and a lowest-scored one is left out.
C21_Witness ==
    /\ pc = "synthesized"
    /\ Len(fin.notes[TextA]) = 6
    /\ \E j \in 2..6 : fin.notes[TextA][1].score < fin.notes[TextA][j].score
    /\ Len(fout.val.findings[1].claim.support) = 5
    /\ fout.val.findings[1].claim.support[1].score > fin.notes[TextA][1].score

\* C22: no gather of EXECUTE discards Evidence gathered for an earlier
\* sub-question: every url that is in Notes under a key before a gather
\* step of EXECUTE is under that key after it, also when two sub-questions
\* of the Plan have the same text.
UrlsOf(evs) == {evs[i].url : i \in 1..Len(evs)}

C22_GatherStep ==
    (pc = "execute" /\ pc' # "failed") =>
        \A k \in DOMAIN notes :
            k \in DOMAIN notes' /\ UrlsOf(notes[k]) \subseteq UrlsOf(notes'[k])

C22_ExecuteKeepsGathered == [][C22_GatherStep]_vars

\* C23: the Briefing that reaches FORMAT is the result of the last
\* synthesize pass of the run, made from the Notes as they are at the end:
\* the last call of the language model was that pass, synthesizing the final
\* Notes with its answers gives the Briefing, and no step after a pass that
\* leads to FORMAT changes the Notes; for every max_iterations.
C23_LastPass ==
    pc \in {"format", "done"} =>
        /\ response.prompt = "synthesis"
        /\ _synthesize(task, plan, notes, response.text) = Ok(final)

C23_NotesStep == pc \in {"resynth", "finish", "format"} => notes' = notes

C23_FinalFromFinalNotes == []C23_LastPass /\ [][C23_NotesStep]_vars

\* C23 witness: a run of two iterations whose REVISE changed what is
\* synthesized has reached FORMAT.
C23_Witness ==
    /\ pc = "format"
    /\ log.reflect = 2
    /\ final # draft
    /\ \E k \in DOMAIN notes : notes[k] # <<>>

\* C24: a REVISE step keeps, under every Notes key, every url it held; the
\* Evidence it holds for a url afterwards is one it held before or scores
\* strictly higher than all it held for that url, so the best score of a url
\* never decreases; the entry of a key without a non-empty follow-up list is
\* unchanged.  The synthesize passes and REFLECT leave the Notes unchanged.
WithUrl(evs, u) == {evs[i] : i \in {j \in 1..Len(evs) : evs[j].url = u}}

C24_ReviseGrows ==
    pc = "revise" =>
        \A k \in DOMAIN notes :
            /\ k \in DOMAIN notes'
            /\ UrlsOf(notes[k]) \subseteq UrlsOf(notes'[k])
            /\ \A u \in UrlsOf(notes[k]) :
                  /\ \A new \in WithUrl(notes'[k], u) :
                        \/ new \in WithUrl(notes[k], u)
                        \/ \A old \in WithUrl(notes[k], u) : new.score > old.score
                  /\ \A old \in WithUrl(notes[k], u) :
                        \E new \in WithUrl(notes'[k], u) : new.score >= old.score
            /\ FollowUpsFor(k) = <<>> => notes'[k] = notes[k]

C24_PassesKeepNotes ==
    pc \in {"synthesize", "reflect", "resynth", "finish"} => notes' = notes

C24_NotesOnlyGrow == [][C24_ReviseGrows /\ C24_PassesKeepNotes]_vars

\* C24 witness: REVISE has fetched a url again and holds for it an Evidence
\* scoring strictly higher than the one the draft was made of, beside a url
\* it did not hold before.
C24_Witness ==
    /\ pc = "resynth"
    /\ draft # None
    /\ \E f \in Range(draft.findings) :
          /\ \E old \in Range(f.claim.support) :
                \E new \in WithUrl(notes[f.sub_question], old.url) :
                    new.score > old.score
          /\ UrlsOf(notes[f.sub_question]) # UrlsOf(f.claim.support)

====
